---- MODULE Spec2Model ----
(***************************************************************************)
(* Model of the RTPTransceiver negotiation layer (rtptransceiver.go):      *)
(* the direction state machine, Stop, replaceTrack and the transceiver     *)
(* matcher satisfyTypeAndDirection.                                        *)
(*                                                                         *)
(* Spec      : API calls executed one at a time, each call one action.     *)
(* SpecMatch : satisfyTypeAndDirection applied to bounded pools.           *)
(* SpecConc  : replaceTrack / Stop calls of several goroutines, one        *)
(*             action per lock acquisition or shared-memory step.          *)
(***************************************************************************)
EXTENDS Integers, Sequences, FiniteSets, TLC

\* ---------------------------------------------------------------- bounds
NumTransceivers == 1
MaxPool == 3
NumProcs == 2
\* transceivers (each with its sender) the goroutines of SpecConc call on
NumShared == 2
\* calls the goroutines of SpecConc make in all
MaxCalls == 3
\* calls that would make a track's activeSenders longer than this are not made
MaxActive == 2
MaxEchoPackets == 2
QueueCapacity == 2
MaxSimReads == 3

\* ------------------------------------------------------------ vocabulary
Nil == 0

Kinds == {"video", "audio"}

Sendrecv == "sendrecv"
Sendonly == "sendonly"
Recvonly == "recvonly"
Inactive == "inactive"
Directions == {Sendrecv, Sendonly, Recvonly, Inactive}

Transceivers == 1..NumTransceivers
\* every transceiver is created with its own RTPSender object
Senders == Transceivers

\* The tracks the calls are made with.  1, 2: outbound video VP8; 3: outbound
\* video H264; 4: inbound (receiver-bound) video VP8; 5: outbound audio opus.
Tracks == {1, 2, 3, 4, 5}

TrackKind(tr) == IF tr = 5 THEN "audio" ELSE "video"

codecMimeType(tr) == IF tr = 5 THEN "audio/opus" ELSE IF tr = 3 THEN "video/H264" ELSE "video/VP8"

\* Track.receiver != nil: the track is an inbound track
trackReceiver(tr) == tr = 4

OutboundTracks == {tr \in Tracks : ~trackReceiver(tr)}

VARIABLES
  kind,              \* RTPTransceiver.kind
  direction,         \* RTPTransceiver.direction
  stopped,           \* RTPTransceiver.stopped
  sender,            \* RTPTransceiver.sender   (Nil or a sender)
  receiver,          \* RTPTransceiver.receiver (TRUE: has a receiver)
  receiverStopped,   \* the receiver has been stopped
  track,             \* RTPSender.track         (Nil or a track)
  transceiver,       \* RTPSender.transceiver   (Nil or a transceiver)
  stopCalled,        \* RTPSender: Stop has taken effect
  activeSenders,     \* Track.activeSenders     (sequence of senders)
  totalSenderCount,  \* Track.totalSenderCount
  last,              \* the last completed call: operation, arguments, result, state before
  stopOk,            \* Stop() has returned nil on the transceiver
  halted,            \* the calling goroutine has panicked or hangs
  pool,              \* the matcher's pool: localTransceivers as last returned
  matchIn,           \* arguments of the last satisfyTypeAndDirection call
  matchOut,          \* the transceiver it returned
  senderMu,          \* RTPSender.mu: the goroutine holding it, or Nil
  trackMu,           \* Track.mu: the goroutine holding it, or Nil
  procs,             \* per goroutine: the call it is in, where it is, its locals
  calls,             \* calls started so far
  panicked,          \* a goroutine of the relay has panicked: the process is gone
  trackCount,        \* echo relay: trackCount
  outputTrack,       \* echo relay: per OnTrack handler, its outputTrack (Nil: not started)
  outputSSRC,        \* echo relay: the SSRC of outputTrack1 and of outputTrack2
  echoRead,          \* echo relay: packets read so far on each inbound track
  echoWritten,       \* echo relay: packets each outbound track has accepted, in order
  echoFailed,        \* echo relay: the inbound tracks whose ReadRTP has failed
  echoPaced,         \* echo relay: the pacers that have sent a picture-loss-indication
  currRTPStreamID,   \* simulcast relay: currRTPStreamID
  packets,           \* simulcast relay: the packets channel
  pumpPc,            \* simulcast relay: where each track's handler is
  lastTimestamp,     \* simulcast relay: each handler's lastTimestamp
  isCurrTrack,       \* simulcast relay: each handler's isCurrTrack
  rtp,               \* simulcast relay: the packet each handler has read last
  pumpPLI,           \* simulcast relay: picture-loss-indications each handler has sent
  currTimestamp,     \* simulcast relay: the consumer's currTimestamp
  seqNumber,         \* simulcast relay: the consumer's i
  enqueued,          \* simulcast relay: the packets sent to the channel, in order
  consumed,          \* simulcast relay: the packets the consumer has taken, as written
  switched,          \* simulcast relay: tracks whose id was selected since they last forwarded
  simFailed          \* simulcast relay: the inbound tracks whose ReadRTP has failed

tvars == <<kind, direction, stopped, sender, receiver, receiverStopped, track,
           transceiver, stopCalled, activeSenders, totalSenderCount>>

seqvars == <<last, stopOk, halted>>

matchvars == <<pool, matchIn, matchOut>>

concvars == <<senderMu, trackMu, procs, calls>>

echovars == <<trackCount, outputTrack, outputSSRC, echoRead, echoWritten, echoFailed,
              echoPaced>>

simvars == <<currRTPStreamID, packets, pumpPc, lastTimestamp, isCurrTrack, rtp, pumpPLI,
             currTimestamp, seqNumber, enqueued, consumed, switched, simFailed>>

relayvars == <<panicked, echovars, simvars>>

\* ------------------------------------------------- the state as a record
CurState ==
  [kind |-> kind, direction |-> direction, stopped |-> stopped, sender |-> sender,
   receiver |-> receiver, receiverStopped |-> receiverStopped, track |-> track,
   transceiver |-> transceiver, stopCalled |-> stopCalled,
   activeSenders |-> activeSenders, totalSenderCount |-> totalSenderCount]

Ret(st, res) == [st |-> st, res |-> res]

\* results of a call
Ok == "ok"
ErrType == "TypeError"                        \* rtcerr.TypeError
ErrStopped == "InvalidStateError"             \* rtcerr.InvalidStateError, transceiver is stopped
ErrTransition == "invalid state change"       \* fmt.Errorf in setSendingTrack
ErrRemote == "cannot replace with remote track"
ErrRenegotiation == "InvalidModificationError"
ErrSenderStop == "sender stop error"
ErrReceiverStop == "receiver stop error"
Panic == "panic"                              \* runtime panic (nil dereference, makeslice)
Deadlock == "deadlock"                        \* the call never returns

\* outcomes of RTPSender.Stop / RTPReceiver.Stop drawn by the environment
StopOutcomes == {"ok", "err"}

\* ------------------------------------------------------- RTPSender.Stop
\* The loop that removes a sender from a track's activeSenders
\* (rtptransceiver.go 151-159): the filtered list ...
filterSenders(list, s) == SelectSeq(list, LAMBDA x : x # s)

\* ... and the count, decremented once for every entry that was removed
countAfterFilter(list, s, cnt) == cnt - Cardinality({i \in DOMAIN list : list[i] = s})

\* RTPSender.Stop: idempotent once it has taken effect; takes the sender out
\* of its track's activeSenders under the track's lock.  A Stop that fails
\* leaves the sender as it was.
senderStop(st, s, out) ==
  IF st.stopCalled[s] THEN [st |-> st, err |-> FALSE]
  ELSE IF out = "err" THEN [st |-> st, err |-> TRUE]
  ELSE LET tr == st.track[s]
           st1 == IF tr = Nil THEN st
                  ELSE [st EXCEPT !.activeSenders[tr] = filterSenders(@, s),
                                  !.totalSenderCount[tr] =
                                      countAfterFilter(st.activeSenders[tr], s, @)]
       IN [st |-> [st1 EXCEPT !.stopCalled[s] = TRUE], err |-> FALSE]

\* RTPReceiver.Stop: idempotent once it has taken effect; a Stop that fails
\* leaves the receiver as it was
receiverStop(st, t, out) ==
  IF st.receiverStopped[t] THEN [st |-> st, err |-> FALSE]
  ELSE IF out = "err" THEN [st |-> st, err |-> TRUE]
  ELSE [st |-> [st EXCEPT !.receiverStopped[t] = TRUE], err |-> FALSE]

\* ------------------------------------------------------- RTPTransceiver
\* setSender(s): point s at t, detach the current sender, store s
setSender(st, t, s) ==
  LET st1 == IF s # Nil THEN [st EXCEPT !.transceiver[s] = t] ELSE st
      curr == st1.sender[t]
      st2 == IF curr # Nil THEN [st1 EXCEPT !.transceiver[curr] = Nil] ELSE st1
  IN [st2 EXCEPT !.sender[t] = s]

setDirection(st, t, d) == [st EXCEPT !.direction[t] = d]

NoDirection == "none"

\* the switch with the targets of its two non-nil cases exchanged
nextDirection_exchanged(dir, trackIsNil) ==
  CASE ~trackIsNil /\ dir = Recvonly -> Sendonly
    [] ~trackIsNil /\ dir = Inactive -> Sendrecv
    [] trackIsNil /\ dir = Sendrecv -> Recvonly
    [] trackIsNil /\ dir = Sendonly -> Inactive
    [] OTHER -> NoDirection

\* the switch of setSendingTrack: the next direction, or NoDirection for the
\* default case (an error)
nextDirection(dir, trackIsNil) ==
  CASE ~trackIsNil /\ dir = Recvonly -> Sendrecv
    [] ~trackIsNil /\ dir = Inactive -> Sendonly
    [] trackIsNil /\ dir = Sendrecv -> Recvonly
    [] trackIsNil /\ dir = Sendonly -> Inactive
    [] OTHER -> NoDirection

setSendingTrack(st, t, tr) ==
  IF st.sender[t] = Nil THEN Ret(st, Panic)          \* t.Sender().track on a nil sender
  ELSE LET st1 == [st EXCEPT !.track[st.sender[t]] = tr]
           st2 == IF tr = Nil THEN setSender(st1, t, Nil) ELSE st1
           d == nextDirection(st2.direction[t], tr = Nil)
       IN IF d = NoDirection THEN Ret(st2, ErrTransition)
          ELSE Ret(setDirection(st2, t, d), Ok)

\* the swap with the codec check made after the sender has been taken out of
\* its old track
swapTrack_lateCodecCheck(st, s, tr) ==
  LET old == st.track[s]
      bind(x) == [x EXCEPT !.track[s] = tr,
                           !.activeSenders[tr] = Append(@, s),
                           !.totalSenderCount[tr] = @ + 1]
      removed == [st EXCEPT !.activeSenders[old] = filterSenders(@, s),
                            !.totalSenderCount[old] =
                                countAfterFilter(st.activeSenders[old], s, @)]
  IN IF old = Nil THEN Ret(bind(st), Ok)
     ELSE IF old = tr THEN Ret(st, Deadlock)
     ELSE IF Len(st.activeSenders[old]) = 0 THEN Ret(st, Panic)
     ELSE IF codecMimeType(old) # codecMimeType(tr) THEN Ret(removed, ErrRenegotiation)
     ELSE Ret(bind(removed), Ok)

\* replaceTrack from "Lock the sender and track from here on out", past the
\* remote-track check: the swap of the sender s from its track to tr
swapTrack(st, s, tr) ==
  LET old == st.track[s]
      bind(x) == [x EXCEPT !.track[s] = tr,
                           !.activeSenders[tr] = Append(@, s),
                           !.totalSenderCount[tr] = @ + 1]
  IN IF old = Nil THEN Ret(bind(st), Ok)
     ELSE IF old = tr THEN Ret(st, Deadlock)         \* track.mu locked twice
     ELSE IF codecMimeType(old) # codecMimeType(tr) THEN Ret(st, ErrRenegotiation)
     ELSE IF Len(st.activeSenders[old]) = 0 THEN Ret(st, Panic)   \* make(.., 0, -1)
     ELSE Ret(bind([st EXCEPT !.activeSenders[old] = filterSenders(@, s),
                              !.totalSenderCount[old] =
                                  countAfterFilter(st.activeSenders[old], s, @)]), Ok)

\* replaceTrack that checks the track's kind only on the sending path
replaceTrack_kindCheckedWhenSending(st, t, tr, out) ==
  LET s == st.sender[t]
      dir == st.direction[t]
  IN IF dir # Sendrecv /\ dir # Sendonly THEN setSendingTrack(st, t, tr)
     ELSE IF tr # Nil /\ TrackKind(tr) # st.kind[t] THEN Ret(st, ErrType)
     ELSE IF st.stopped[t] THEN Ret(st, ErrStopped)
     ELSE IF s = Nil THEN Ret(st, Panic)
     ELSE IF tr = Nil THEN
            LET r == senderStop(st, s, out)
            IN IF r.err THEN Ret(r.st, ErrSenderStop)
               ELSE setSendingTrack(r.st, t, Nil)
     ELSE IF trackReceiver(tr) THEN Ret(st, ErrRemote)
     ELSE swapTrack(st, s, tr)

replaceTrack(st, t, tr, out) ==
  IF tr # Nil /\ TrackKind(tr) # st.kind[t] THEN Ret(st, ErrType)
  ELSE IF st.stopped[t] THEN Ret(st, ErrStopped)
  ELSE LET s == st.sender[t]
           dir == st.direction[t]
       IN IF dir # Sendrecv /\ dir # Sendonly THEN setSendingTrack(st, t, tr)
          ELSE IF s = Nil THEN Ret(st, Panic)        \* sender.Stop / sender.mu on nil
          ELSE IF tr = Nil THEN
                 LET r == senderStop(st, s, out)
                 IN IF r.err THEN Ret(r.st, ErrSenderStop)
                    ELSE setSendingTrack(r.st, t, Nil)
          ELSE IF trackReceiver(tr) THEN Ret(st, ErrRemote)
          ELSE swapTrack(st, s, tr)

\* Stop that does not look at the receiver's error
transceiverStop_receiverErrorDropped(st, t, sout, rout) ==
  LET r1 == IF st.sender[t] # Nil THEN senderStop(st, st.sender[t], sout)
            ELSE [st |-> st, err |-> FALSE]
      r2 == IF r1.st.receiver[t] THEN receiverStop(r1.st, t, rout)
            ELSE [st |-> r1.st, err |-> FALSE]
  IN IF r1.err THEN Ret(r1.st, ErrSenderStop)
     ELSE Ret(setDirection(r2.st, t, Inactive), Ok)

transceiverStop(st, t, sout, rout) ==
  LET r1 == IF st.sender[t] # Nil THEN senderStop(st, st.sender[t], sout)
            ELSE [st |-> st, err |-> FALSE]
      r2 == IF r1.st.receiver[t] THEN receiverStop(r1.st, t, rout)
            ELSE [st |-> r1.st, err |-> FALSE]
  IN IF r1.err THEN Ret(r1.st, ErrSenderStop)
     ELSE IF r2.err THEN Ret(r2.st, ErrReceiverStop)
     ELSE Ret(setDirection(r2.st, t, Inactive), Ok)

\* ----------------------------------------------- satisfyTypeAndDirection
\* the order with a direction for a remote inactive section too
getPreferredDirections_inactive(remoteDirection) ==
  CASE remoteDirection = Sendrecv -> <<Recvonly, Sendrecv>>
    [] remoteDirection = Sendonly -> <<Recvonly, Sendrecv>>
    [] remoteDirection = Recvonly -> <<Sendonly, Sendrecv>>
    [] OTHER -> <<Inactive>>

\* direction order from most preferred to least
getPreferredDirections(remoteDirection) ==
  CASE remoteDirection = Sendrecv -> <<Recvonly, Sendrecv>>
    [] remoteDirection = Sendonly -> <<Recvonly, Sendrecv>>
    [] remoteDirection = Recvonly -> <<Sendonly, Sendrecv>>
    [] OTHER -> <<>>

\* the inner loop from index i on: the index of the first transceiver of the
\* kind and direction, 0 when the loop runs out
RECURSIVE scanTransceivers(_, _, _, _)
scanTransceivers(localTransceivers, remoteKind, possibleDirection, i) ==
  IF i > Len(localTransceivers) THEN 0
  ELSE IF localTransceivers[i].kind # remoteKind
          \/ possibleDirection # localTransceivers[i].direction
       THEN scanTransceivers(localTransceivers, remoteKind, possibleDirection, i + 1)
       ELSE i

\* append(localTransceivers[:i], localTransceivers[i+1:]...), 1-based
removeAt(localTransceivers, i) ==
  SubSeq(localTransceivers, 1, i - 1) \o SubSeq(localTransceivers, i + 1, Len(localTransceivers))

\* the transceiver made when nothing in the list satisfies the request; it is
\* a new object (id Nil: none of the list's)
newInactiveTransceiver(remoteKind) ==
  [id |-> Nil, kind |-> remoteKind, direction |-> Inactive]

\* the outer loop from the j-th preferred direction on
RECURSIVE scanDirections(_, _, _, _)
scanDirections(localTransceivers, remoteKind, preferred, j) ==
  IF j > Len(preferred)
  THEN [t |-> newInactiveTransceiver(remoteKind), pool |-> localTransceivers]
  ELSE LET i == scanTransceivers(localTransceivers, remoteKind, preferred[j], 1)
       IN IF i # 0
          THEN [t |-> localTransceivers[i], pool |-> removeAt(localTransceivers, i)]
          ELSE scanDirections(localTransceivers, remoteKind, preferred, j + 1)

\* the loops nested the other way round: the first transceiver in list order
\* that has any of the preferred directions
satisfyTypeAndDirection_listOrder(remoteKind, remoteDirection, localTransceivers) ==
  LET preferred == getPreferredDirections(remoteDirection)
      hits == {i \in DOMAIN localTransceivers :
                 /\ localTransceivers[i].kind = remoteKind
                 /\ \E j \in DOMAIN preferred :
                       preferred[j] = localTransceivers[i].direction}
  IN IF hits = {}
     THEN [t |-> newInactiveTransceiver(remoteKind), pool |-> localTransceivers]
     ELSE LET i == CHOOSE x \in hits : \A y \in hits : x <= y
          IN [t |-> localTransceivers[i], pool |-> removeAt(localTransceivers, i)]

satisfyTypeAndDirection(remoteKind, remoteDirection, localTransceivers) ==
  scanDirections(localTransceivers, remoteKind, getPreferredDirections(remoteDirection), 1)

\* --------------------------------------------- Spec: one call at a time
NoCall == [op |-> "none", t |-> Nil, track |-> Nil, res |-> Ok, dir |-> NoDirection]

\* the senders bound to tr, in creation order
boundSenders(trk, tr) ==
  SelectSeq([i \in 1..NumTransceivers |-> i], LAMBDA s : trk[s] = tr)

InitTransceivers ==
  /\ kind = [t \in Transceivers |-> "video"]
  /\ direction \in [Transceivers -> Directions]
  /\ stopped = [t \in Transceivers |-> FALSE]
  /\ sender = [t \in Transceivers |-> t]
  /\ receiver \in [Transceivers -> BOOLEAN]
  /\ receiverStopped = [t \in Transceivers |-> FALSE]
  /\ transceiver = [s \in Senders |-> s]
  /\ stopCalled = [s \in Senders |-> FALSE]
     \* a sending transceiver's sender is bound to an outbound track of its
     \* kind and is one of the track's active senders
  /\ track \in [Senders -> Tracks \cup {Nil}]
  /\ \A s \in Senders :
        IF direction[s] \in {Sendrecv, Sendonly}
        THEN track[s] \in OutboundTracks /\ TrackKind(track[s]) = kind[s]
        ELSE track[s] = Nil
  /\ activeSenders = [tr \in Tracks |-> boundSenders(track, tr)]
  /\ totalSenderCount = [tr \in Tracks |-> Len(activeSenders[tr])]

\* the matcher is not in use
NoMatch ==
  /\ pool = <<>>
  /\ matchIn = [kind |-> "video", direction |-> Inactive, pool |-> <<>>]
  /\ matchOut = [id |-> Nil, kind |-> "video", direction |-> Inactive]

\* no goroutines
NoProcs ==
  /\ senderMu = <<>> /\ trackMu = <<>> /\ procs = <<>> /\ calls = 0

\* no relay is running
NoEcho ==
  /\ trackCount = 0
  /\ outputTrack = <<>>
  /\ outputSSRC = <<>>
  /\ echoRead = <<>>
  /\ echoWritten = <<>>
  /\ echoFailed = {}
  /\ echoPaced = {}

NoSim ==
  /\ currRTPStreamID = "a"
  /\ packets = <<>>
  /\ pumpPc = <<>>
  /\ lastTimestamp = <<>>
  /\ isCurrTrack = <<>>
  /\ rtp = <<>>
  /\ pumpPLI = <<>>
  /\ currTimestamp = <<0, 0>>
  /\ seqNumber = 0
  /\ enqueued = <<>>
  /\ consumed = <<>>
  /\ switched = {}
  /\ simFailed = {}

NoRelay == panicked = FALSE /\ NoEcho /\ NoSim

Init ==
  /\ InitTransceivers
  /\ last = NoCall
  /\ stopOk = [t \in Transceivers |-> FALSE]
  /\ halted = FALSE
  /\ NoMatch
  /\ NoProcs
  /\ NoRelay

\* the state after a call
Becomes(st) ==
  /\ kind' = st.kind
  /\ direction' = st.direction
  /\ stopped' = st.stopped
  /\ sender' = st.sender
  /\ receiver' = st.receiver
  /\ receiverStopped' = st.receiverStopped
  /\ track' = st.track
  /\ transceiver' = st.transceiver
  /\ stopCalled' = st.stopCalled
  /\ activeSenders' = st.activeSenders
  /\ totalSenderCount' = st.totalSenderCount

\* the outcomes RTPSender.Stop can have on the sender s
senderStopOutcomes(s) == IF s = Nil \/ stopCalled[s] THEN {"ok"} ELSE StopOutcomes

receiverStopOutcomes(t) ==
  IF ~receiver[t] \/ receiverStopped[t] THEN {"ok"} ELSE StopOutcomes

\* sender.ReplaceTrack(tr) on the sender of transceiver t; out is the outcome
\* of the sender.Stop() the call makes for a nil track while sending
ReplaceTrack(t, tr, out) ==
  /\ ~halted
  /\ out = "ok" \/ (tr = Nil /\ direction[t] \in {Sendrecv, Sendonly})
  /\ LET r == replaceTrack(CurState, t, tr, out)
     IN /\ \A x \in Tracks : Len(r.st.activeSenders[x]) <= MaxActive
        /\ Becomes(r.st)
        /\ last' = [op |-> "replaceTrack", t |-> t, track |-> tr, res |-> r.res,
                    dir |-> direction[t]]
        /\ halted' = (r.res \in {Panic, Deadlock})
  /\ UNCHANGED <<stopOk, matchvars, concvars, relayvars>>

\* t.Stop(); sout and rout are the outcomes of stopping the sender and the
\* receiver
Stop(t, sout, rout) ==
  /\ ~halted
  /\ LET r == transceiverStop(CurState, t, sout, rout)
     IN /\ Becomes(r.st)
        /\ last' = [op |-> "Stop", t |-> t, track |-> Nil, res |-> r.res,
                    dir |-> direction[t]]
        /\ stopOk' = [stopOk EXCEPT ![t] = @ \/ r.res = Ok]
  /\ UNCHANGED <<halted, matchvars, concvars, relayvars>>

Next ==
  \/ \E t \in Transceivers, tr \in Tracks \cup {Nil} :
        \E out \in senderStopOutcomes(sender[t]) : ReplaceTrack(t, tr, out)
  \/ \E t \in Transceivers :
        \E sout \in senderStopOutcomes(sender[t]), rout \in receiverStopOutcomes(t) :
           Stop(t, sout, rout)

vars == <<tvars, seqvars, matchvars, concvars, relayvars>>

Spec == Init /\ [][Next]_vars

\* ======================================================== properties, Spec
Sending(d) == d \in {Sendrecv, Sendonly}

\* the direction table of the design (section 4.1), written out
DirectionTable ==
  (<<Recvonly, FALSE>> :> Sendrecv) @@ (<<Inactive, FALSE>> :> Sendonly) @@
  (<<Sendrecv, TRUE>> :> Recvonly) @@ (<<Sendonly, TRUE>> :> Inactive)

\* the last call was a replaceTrack that went through setSendingTrack and
\* came back from it
ThroughSetSendingTrack ==
  /\ last.op = "replaceTrack"
  /\ last.res \in {Ok, ErrTransition}
  /\ (last.track = Nil \/ ~Sending(last.dir))

C3_StopIsTerminal ==
  [][\A t \in Transceivers :
        stopOk[t] =>
          /\ direction'[t] = Inactive
          /\ sender'[t] = sender[t]
          /\ sender[t] # Nil => track'[sender[t]] = track[sender[t]]
          /\ (last'.op = "replaceTrack" /\ last'.t = t
                /\ (last'.track = Nil \/ TrackKind(last'.track) = kind[t]))
               => last'.res \in {ErrStopped, ErrTransition}]_vars

\* the step is the call replaceTrack(tr) on transceiver t
IsReplaceTrack(t, tr) ==
  /\ last'.op = "replaceTrack" /\ last'.t = t /\ last'.track = tr
  /\ \E out \in StopOutcomes : ReplaceTrack(t, tr, out)

\* t is sending and its sender is bound to the outbound track a
SendingOn(t, a) ==
  /\ Sending(direction[t])
  /\ sender[t] # Nil
  /\ track[sender[t]] = a
  /\ a \in OutboundTracks

\* C4: on a sending transceiver whose sender is bound to the outbound track A,
\* replaceTrack(B) with B another outbound track of the same kind and codec
\* succeeds; the sender leaves A's activeSenders (A's count one less), is bound
\* to B and is in B's activeSenders (B's count one more); the direction stays.
C4_SwapRebinds ==
  [][\A t \in Transceivers, a \in Tracks, b \in OutboundTracks :
        (/\ SendingOn(t, a)
         /\ b # a /\ TrackKind(b) = kind[t] /\ TrackKind(a) = kind[t]
         /\ codecMimeType(a) = codecMimeType(b)
         /\ IsReplaceTrack(t, b))
        => LET s == sender[t]
           IN /\ last'.res = Ok
              /\ \A i \in DOMAIN activeSenders'[a] : activeSenders'[a][i] # s
              /\ totalSenderCount'[a] = totalSenderCount[a] - 1
              /\ track'[s] = b
              /\ \E i \in DOMAIN activeSenders'[b] : activeSenders'[b][i] = s
              /\ totalSenderCount'[b] = totalSenderCount[b] + 1
              /\ direction'[t] = direction[t]]_vars

\* C5: on a sending transceiver whose sender is bound to a track, replaceTrack
\* with an outbound track (of the transceiver's kind) of another codec MIME
\* type fails with InvalidModification (renegotiation required) and changes
\* nothing: bindings, activeSenders, counts and directions are as before.
C5_RenegotiationChangesNothing ==
  [][\A t \in Transceivers, b \in OutboundTracks :
        (/\ Sending(direction[t])
         /\ sender[t] # Nil
         /\ track[sender[t]] # Nil
         /\ TrackKind(b) = kind[t]
         /\ codecMimeType(track[sender[t]]) # codecMimeType(b)
         /\ IsReplaceTrack(t, b))
        => /\ last'.res = ErrRenegotiation
           /\ UNCHANGED tvars]_vars

C5_Witness ==
  /\ last.op = "replaceTrack"
  /\ last.res = ErrRenegotiation
  /\ Sending(direction[last.t])
  /\ track[sender[last.t]] # Nil
  /\ codecMimeType(track[sender[last.t]]) # codecMimeType(last.track)

\* C6: a replaceTrack that returns the invalid-transition error leaves the
\* sender's bound track, the transceiver's sender slot, the sender's
\* transceiver back-reference and the direction as they were.
C6_InvalidTransitionChangesNothing ==
  [][(last'.op = "replaceTrack" /\ last'.res = ErrTransition
        /\ \E tr \in Tracks \cup {Nil} : IsReplaceTrack(last'.t, tr))
       => /\ sender' = sender
          /\ track' = track
          /\ transceiver' = transceiver
          /\ direction' = direction]_vars

\* C7: no sender is ever bound to an inbound (receiver-bound) track.
C7_NoInboundTrackBound ==
  \A s \in Senders : track[s] # Nil => ~trackReceiver(track[s])

\* the places of the sender s in a track's activeSenders
Places(list, s) == {i \in DOMAIN list : list[i] = s}

\* sender.track and Track.activeSenders agree: a sender is bound to a track
\* exactly when it is in the track's list, and it is in a list at most once
BindingConsistent(trk, act) ==
  \A s \in Senders, tr \in Tracks :
     /\ trk[s] = tr <=> Places(act[tr], s) # {}
     /\ Cardinality(Places(act[tr], s)) <= 1

\* C21: a sender's bound track is T if and only if the sender is in
\* T.activeSenders, and a sender is in a track's activeSenders at most once:
\* this holds when the transceivers are created and every replaceTrack call
\* keeps it, also the call that binds a track on a transceiver that is not
\* sending (recvonly or inactive, non-null track).
C21_BindingConsistent ==
  /\ BindingConsistent(track, activeSenders)
  /\ [][\A t \in Transceivers, tr \in Tracks \cup {Nil} :
          (BindingConsistent(track, activeSenders) /\ IsReplaceTrack(t, tr))
          => BindingConsistent(track', activeSenders')]_vars

\* C22: every replaceTrack call made in a sequence of calls on a transceiver
\* created with a sender returns, with success or an error value: it does not
\* panic and does not hang.  This includes replaceTrack(track) after a
\* successful replaceTrack(nil), replaceTrack(B) on a sender whose bound track
\* has an empty activeSenders, and replaceTrack(T) with T the bound track.
C22_ReplaceTrackReturns ==
  [][\A t \in Transceivers, tr \in Tracks \cup {Nil} :
        IsReplaceTrack(t, tr) => last'.res \notin {Panic, Deadlock}]_vars

\* the outcome makes stopping the part fail
SenderStopFails(t, sout) ==
  sender[t] # Nil /\ ~stopCalled[sender[t]] /\ sout # "ok"

ReceiverStopFails(t, rout) ==
  receiver[t] /\ ~receiverStopped[t] /\ rout # "ok"

\* C11: replaceTrack with a track whose kind is not the transceiver's kind
\* fails with the type error from every state and changes nothing (kind,
\* direction, sender slot, bindings, activeSenders and counts are as before);
\* no operation changes a transceiver's kind.
C11_TypeMismatchChangesNothing ==
  [][/\ kind' = kind
     /\ \A t \in Transceivers, tr \in Tracks :
          (TrackKind(tr) # kind[t] /\ IsReplaceTrack(t, tr))
          => /\ last'.res = ErrType
             /\ UNCHANGED tvars]_vars

C11_Witness ==
  /\ last.op = "replaceTrack"
  /\ last.res = ErrType
  /\ last.track # Nil
  /\ TrackKind(last.track) # kind[last.t]
  /\ last.dir = Recvonly

\* C10: Stop returns the sender's error if stopping the sender fails, else the
\* receiver's error if stopping the receiver fails, else nil with the
\* direction inactive; absent parts count as stopped; a Stop after a
\* successful Stop returns nil and leaves the direction inactive.
C10_StopResult ==
  [][\A t \in Transceivers, sout \in StopOutcomes, rout \in StopOutcomes :
        (last'.op = "Stop" /\ last'.t = t /\ Stop(t, sout, rout))
        => /\ last'.res = IF SenderStopFails(t, sout) THEN ErrSenderStop
                          ELSE IF ReceiverStopFails(t, rout) THEN ErrReceiverStop
                          ELSE Ok
           /\ last'.res = Ok => direction'[t] = Inactive
           /\ stopOk[t] => last'.res = Ok /\ direction'[t] = Inactive]_vars

C10_Witness ==
  /\ last.op = "Stop"
  /\ last.res = ErrReceiverStop
  /\ sender[last.t] # Nil /\ stopCalled[sender[last.t]]
  /\ ~stopOk[last.t]

\* ==================================== SpecMatch: satisfyTypeAndDirection
\* the transceivers are not in use
NoTransceivers ==
  /\ kind = <<>> /\ direction = <<>> /\ stopped = <<>> /\ sender = <<>>
  /\ receiver = <<>> /\ receiverStopped = <<>> /\ track = <<>>
  /\ transceiver = <<>> /\ stopCalled = <<>>
  /\ activeSenders = [tr \in Tracks |-> <<>>]
  /\ totalSenderCount = [tr \in Tracks |-> 0]
  /\ last = NoCall /\ stopOk = <<>> /\ halted = FALSE

\* pools of at most MaxPool transceivers of any kind and direction; the id of
\* a transceiver is its place in the initial pool
PoolsOfLen(n) ==
  {[i \in 1..n |-> [id |-> i, kind |-> f[i][1], direction |-> f[i][2]]] :
      f \in [1..n -> Kinds \X Directions]}

InitMatch ==
  /\ NoTransceivers
  /\ NoProcs
  /\ NoRelay
  /\ \E n \in 0..MaxPool : pool \in PoolsOfLen(n)
  /\ matchIn = [kind |-> "video", direction |-> Inactive, pool |-> pool]
  /\ matchOut = [id |-> Nil, kind |-> "none", direction |-> NoDirection]

\* t, localTransceivers = satisfyTypeAndDirection(kind, direction, localTransceivers)
Match(remoteKind, remoteDirection) ==
  /\ LET r == satisfyTypeAndDirection(remoteKind, remoteDirection, pool)
     IN /\ pool' = r.pool
        /\ matchOut' = r.t
  /\ matchIn' = [kind |-> remoteKind, direction |-> remoteDirection, pool |-> pool]
  /\ UNCHANGED <<tvars, seqvars, concvars, relayvars>>

NextMatch ==
  \E remoteKind \in Kinds, remoteDirection \in Directions :
     Match(remoteKind, remoteDirection)

SpecMatch == InitMatch /\ [][NextMatch]_vars

\* a call has been made
Matched == matchOut.direction # NoDirection

\* the preference order of the design (section 4.2), written out
PreferredLocal ==
  (Sendrecv :> <<Recvonly, Sendrecv>>) @@ (Sendonly :> <<Recvonly, Sendrecv>>) @@
  (Recvonly :> <<Sendonly, Sendrecv>>) @@ (Inactive :> <<>>)

\* places in the input pool holding a transceiver of the remote kind with
\* direction d
Candidates(d) ==
  {i \in DOMAIN matchIn.pool :
      matchIn.pool[i].kind = matchIn.kind /\ matchIn.pool[i].direction = d}

\* ranks of the preferred directions that have a candidate
UsableRanks ==
  {j \in DOMAIN PreferredLocal[matchIn.direction] :
      Candidates(PreferredLocal[matchIn.direction][j]) # {}}

Least(S) == CHOOSE x \in S : \A y \in S : x <= y

\* C8: the transceiver returned is the first in pool order, of the remote kind,
\* whose direction is the earliest preferred direction with any match
\* ([recvonly, sendrecv] for remote sendrecv/sendonly, [sendonly, sendrecv] for
\* remote recvonly); the returned pool is the input pool without that one
\* element, the others in their order.
C8_MatchPicksPreferredFirst ==
  (Matched /\ UsableRanks # {}) =>
    LET d == PreferredLocal[matchIn.direction][Least(UsableRanks)]
        i == Least(Candidates(d))
    IN /\ matchOut = matchIn.pool[i]
       /\ Len(pool) = Len(matchIn.pool) - 1
       /\ \A k \in DOMAIN pool :
             pool[k] = IF k < i THEN matchIn.pool[k] ELSE matchIn.pool[k + 1]

\* a recvonly transceiver was taken although a sendrecv one of the kind stood
\* before it in the pool
C8_Witness ==
  /\ Matched
  /\ matchOut.direction = Recvonly
  /\ \E i, k \in DOMAIN matchIn.pool :
        /\ i < k
        /\ matchIn.pool[k] = matchOut
        /\ matchIn.pool[i].kind = matchIn.kind
        /\ matchIn.pool[i].direction = Sendrecv
  /\ Len(pool) = 2

\* C9: when no pool element has the remote kind and a preferred direction
\* (whatever the kind, the direction, inactive included, and the pool, the
\* empty one included) the result is a new transceiver of the remote kind,
\* inactive, that is none of the pool's, and the pool is returned as it was.
C9_NoMatchMakesInactive ==
  (Matched /\ UsableRanks = {}) =>
    /\ matchOut.kind = matchIn.kind
    /\ matchOut.direction = Inactive
    /\ \A i \in DOMAIN matchIn.pool : matchIn.pool[i].id # matchOut.id
    /\ pool = matchIn.pool

\* a remote inactive section finds nothing in a pool that holds transceivers
\* of its kind
C9_Witness ==
  /\ Matched
  /\ matchIn.direction = Inactive
  /\ \E i \in DOMAIN matchIn.pool : matchIn.pool[i].kind = matchIn.kind
  /\ matchOut.id = Nil
  /\ pool = matchIn.pool

\* ============================ SpecConc: calls of concurrent goroutines
\* One action per lock acquisition and per statement that reads or writes
\* shared memory; a goroutine's pc names the source line it is about to run.
\* sender.track is a plain field: every statement that names it reads the field
\* anew.  A panic, or the unlock of an unlocked mutex, ends the process.
Procs == 1..NumProcs

Shared == 1..NumShared

\* the video tracks: what the goroutines call replaceTrack with
ConcTracks == {tr \in Tracks : TrackKind(tr) = "video"}

IdleProc ==
  [pc |-> "idle", t |-> Nil, tr |-> Nil, s |-> Nil, lk |-> Nil, ul |-> Nil,
   filtered |-> <<>>, cont |-> "idle"]

InitConc ==
  /\ kind = [t \in Shared |-> "video"]
  /\ direction \in [Shared -> Directions]
  /\ stopped = [t \in Shared |-> FALSE]
  /\ sender = [t \in Shared |-> t]
  /\ receiver = [t \in Shared |-> FALSE]
  /\ receiverStopped = [t \in Shared |-> FALSE]
  /\ transceiver = [s \in Shared |-> s]
  /\ stopCalled = [s \in Shared |-> FALSE]
  /\ track \in [Shared -> {1, 2} \cup {Nil}]
  /\ \A s \in Shared : Sending(direction[s]) <=> track[s] # Nil
  /\ activeSenders =
       [tr \in Tracks |-> SelectSeq([i \in 1..NumShared |-> i], LAMBDA s : track[s] = tr)]
  /\ totalSenderCount = [tr \in Tracks |-> Len(activeSenders[tr])]
  /\ last = NoCall
  /\ stopOk = [t \in Shared |-> FALSE]
  /\ halted = FALSE
  /\ NoMatch
  /\ senderMu = [s \in Shared |-> Nil]
  /\ trackMu = [tr \in Tracks |-> Nil]
  /\ procs = [p \in Procs |-> IdleProc]
  /\ calls = 0
  /\ NoRelay

At(p, pc) == ~halted /\ procs[p].pc = pc

Goto(p, pc) == procs' = [procs EXCEPT ![p].pc = pc]

Return(p) == procs' = [procs EXCEPT ![p] = IdleProc]

\* the process dies: runtime panic or fatal error
Crash == halted' = TRUE /\ UNCHANGED <<tvars, last, stopOk, matchvars, concvars, relayvars>>

Quiet == UNCHANGED <<last, stopOk, matchvars, relayvars>>

\* the deferred unlocks of the tracks in us, in that order, from mu on; fatal
\* when one of them is not locked
RECURSIVE unlockTracks(_, _)
unlockTracks(mu, us) ==
  IF us = <<>> THEN [mu |-> mu, fatal |-> FALSE]
  ELSE IF mu[Head(us)] = Nil THEN [mu |-> mu, fatal |-> TRUE]
  ELSE unlockTracks([mu EXCEPT ![Head(us)] = Nil], Tail(us))

\* return from the locked part of replaceTrack: the deferred unlocks run, last
\* registered first (the old track's, the new track's, the sender's)
ReturnUnlocking(p) ==
  LET me == procs[p]
      r == unlockTracks(trackMu, IF me.ul = Nil THEN <<me.tr>> ELSE <<me.ul, me.tr>>)
  IN IF r.fatal THEN halted' = TRUE /\ UNCHANGED <<trackMu, senderMu, procs>>
     ELSE /\ trackMu' = r.mu
          /\ senderMu' = [senderMu EXCEPT ![me.s] = Nil]
          /\ Return(p)
          /\ UNCHANGED halted

\* lines 110-128: the checks, sender := t.Sender(), the direction test
CallReplaceTrack(p, t, tr) ==
  /\ At(p, "idle")
  /\ calls < MaxCalls
  /\ calls' = calls + 1
  /\ IF (tr # Nil /\ TrackKind(tr) # kind[t]) \/ stopped[t]
     THEN UNCHANGED <<procs, halted>>
     ELSE IF ~Sending(direction[t])
     THEN /\ procs' = [procs EXCEPT ![p] = [IdleProc EXCEPT !.pc = "L88", !.t = t, !.tr = tr]]
          /\ UNCHANGED halted
     ELSE IF sender[t] = Nil
     THEN halted' = TRUE /\ UNCHANGED procs
     ELSE /\ procs' = [procs EXCEPT ![p] =
                 [IdleProc EXCEPT !.pc = IF tr = Nil THEN "senderStop" ELSE "L130",
                                  !.t = t, !.tr = tr, !.s = sender[t], !.cont = "L88"]]
          /\ UNCHANGED halted
  /\ UNCHANGED <<tvars, senderMu, trackMu>>
  /\ Quiet

\* line 88: t.Sender().track = track
L88(p) ==
  /\ At(p, "L88")
  /\ LET me == procs[p]
     IN IF sender[me.t] = Nil THEN Crash
        ELSE /\ track' = [track EXCEPT ![sender[me.t]] = me.tr]
             /\ Goto(p, IF me.tr = Nil THEN "L39" ELSE "L93")
             /\ UNCHANGED <<kind, direction, stopped, sender, receiver, receiverStopped,
                            transceiver, stopCalled, activeSenders, totalSenderCount,
                            senderMu, trackMu, calls, halted>>
             /\ Quiet

\* setSender(nil), lines 39-41: the current sender, if there, is locked
L39(p) ==
  /\ At(p, "L39")
  /\ LET me == procs[p]
         curr == sender[me.t]
     IN IF curr = Nil
        THEN /\ Goto(p, "L93")
             /\ UNCHANGED senderMu
        ELSE /\ senderMu[curr] = Nil
             /\ senderMu' = [senderMu EXCEPT ![curr] = p]
             /\ procs' = [procs EXCEPT ![p].pc = "L43", ![p].s = curr]
  /\ UNCHANGED <<tvars, trackMu, calls, halted>>
  /\ Quiet

\* setSender(nil), lines 43-46: detach, store nil, unlock
L43(p) ==
  /\ At(p, "L43")
  /\ LET me == procs[p]
     IN /\ transceiver' = [transceiver EXCEPT ![me.s] = Nil]
        /\ sender' = [sender EXCEPT ![me.t] = Nil]
        /\ senderMu' = [senderMu EXCEPT ![me.s] = Nil]
  /\ Goto(p, "L93")
  /\ UNCHANGED <<kind, direction, stopped, receiver, receiverStopped, track, stopCalled,
                 activeSenders, totalSenderCount, trackMu, calls, halted>>
  /\ Quiet

\* lines 93-105: the switch of setSendingTrack, and the return
L93(p) ==
  /\ At(p, "L93")
  /\ LET me == procs[p]
         d == nextDirection(direction[me.t], me.tr = Nil)
     IN direction' = IF d = NoDirection THEN direction ELSE [direction EXCEPT ![me.t] = d]
  /\ Return(p)
  /\ UNCHANGED <<kind, stopped, sender, receiver, receiverStopped, track, transceiver,
                 stopCalled, activeSenders, totalSenderCount, senderMu, trackMu, calls,
                 halted>>
  /\ Quiet

\* where a goroutine goes on after sender.Stop(): to setSendingTrack(nil), to
\* the rest of Stop, or back to the caller with the error
AfterSenderStop(p, err) ==
  IF err THEN Return(p) ELSE Goto(p, procs[p].cont)

\* RTPSender.Stop: the sender is locked; a stopped sender returns nil
SenderStopLock(p, out) ==
  /\ At(p, "senderStop")
  /\ LET me == procs[p]
     IN /\ senderMu[me.s] = Nil
        /\ IF stopCalled[me.s] \/ out = "err"
           THEN /\ AfterSenderStop(p, ~stopCalled[me.s])
                /\ UNCHANGED <<senderMu, stopCalled>>
           ELSE IF track[me.s] = Nil
           THEN /\ stopCalled' = [stopCalled EXCEPT ![me.s] = TRUE]
                /\ AfterSenderStop(p, FALSE)
                /\ UNCHANGED senderMu
           ELSE /\ senderMu' = [senderMu EXCEPT ![me.s] = p]
                /\ Goto(p, "senderStopTrack")
                /\ UNCHANGED stopCalled
  /\ UNCHANGED <<kind, direction, stopped, sender, receiver, receiverStopped, track,
                 transceiver, activeSenders, totalSenderCount, trackMu, calls, halted>>
  /\ Quiet

\* RTPSender.Stop: the sender's track is locked
SenderStopTrack(p) ==
  /\ At(p, "senderStopTrack")
  /\ LET me == procs[p]
     IN IF track[me.s] = Nil THEN Crash
        ELSE /\ trackMu[track[me.s]] = Nil
             /\ trackMu' = [trackMu EXCEPT ![track[me.s]] = p]
             /\ procs' = [procs EXCEPT ![p].pc = "senderStopBody", ![p].lk = track[me.s]]
             /\ UNCHANGED <<tvars, senderMu, calls, halted>>
             /\ Quiet

\* RTPSender.Stop: the sender leaves the track's activeSenders; unlock
SenderStopBody(p) ==
  /\ At(p, "senderStopBody")
  /\ LET me == procs[p]
     IN /\ activeSenders' = [activeSenders EXCEPT ![me.lk] = filterSenders(@, me.s)]
        /\ totalSenderCount' = [totalSenderCount EXCEPT ![me.lk] =
                                   countAfterFilter(activeSenders[me.lk], me.s, @)]
        /\ stopCalled' = [stopCalled EXCEPT ![me.s] = TRUE]
        /\ trackMu' = [trackMu EXCEPT ![me.lk] = Nil]
        /\ senderMu' = [senderMu EXCEPT ![me.s] = Nil]
  /\ AfterSenderStop(p, FALSE)
  /\ UNCHANGED <<kind, direction, stopped, sender, receiver, receiverStopped, track,
                 transceiver, calls, halted>>
  /\ Quiet

\* Stop, lines 63-68: the sender, if there, is stopped first
CallStop(p, t) ==
  /\ At(p, "idle")
  /\ calls < MaxCalls
  /\ calls' = calls + 1
  /\ procs' = [procs EXCEPT ![p] =
        [IdleProc EXCEPT !.pc = IF sender[t] # Nil THEN "senderStop" ELSE "L69",
                         !.t = t, !.s = sender[t], !.cont = "L69"]]
  /\ UNCHANGED <<tvars, senderMu, trackMu, halted>>
  /\ Quiet

\* Stop, lines 69-76: the receiver, if there, is stopped; direction inactive
L69(p, rout) ==
  /\ At(p, "L69")
  /\ LET t == procs[p].t
         r == IF receiver[t] THEN receiverStop(CurState, t, rout)
              ELSE [st |-> CurState, err |-> FALSE]
     IN /\ receiverStopped' = r.st.receiverStopped
        /\ direction' = IF r.err THEN direction ELSE [direction EXCEPT ![t] = Inactive]
  /\ Return(p)
  /\ UNCHANGED <<kind, stopped, sender, receiver, track, transceiver, stopCalled,
                 activeSenders, totalSenderCount, senderMu, trackMu, calls, halted>>
  /\ Quiet

\* line 130: sender.mu.Lock()
L130(p) ==
  /\ At(p, "L130")
  /\ senderMu[procs[p].s] = Nil
  /\ senderMu' = [senderMu EXCEPT ![procs[p].s] = p]
  /\ Goto(p, "L132")
  /\ UNCHANGED <<tvars, trackMu, calls, halted>>
  /\ Quiet

\* line 132: track.mu.Lock()
L132(p) ==
  /\ At(p, "L132")
  /\ trackMu[procs[p].tr] = Nil
  /\ trackMu' = [trackMu EXCEPT ![procs[p].tr] = p]
  /\ Goto(p, "L134")
  /\ UNCHANGED <<tvars, senderMu, calls, halted>>
  /\ Quiet

\* lines 134-138: the remote-track check, then sender.track != nil
L134(p) ==
  /\ At(p, "L134")
  /\ LET me == procs[p]
     IN IF trackReceiver(me.tr) THEN ReturnUnlocking(p)
        ELSE /\ Goto(p, IF track[me.s] = Nil THEN "L162" ELSE "L140")
             /\ UNCHANGED <<senderMu, trackMu, halted>>
  /\ UNCHANGED <<tvars, calls>>
  /\ Quiet

\* line 140: sender.track.mu.Lock(), the field is read ...
L140(p) ==
  /\ At(p, "L140")
  /\ LET me == procs[p]
     IN IF track[me.s] = Nil THEN Crash
        ELSE /\ procs' = [procs EXCEPT ![p].pc = "L140lock", ![p].lk = track[me.s]]
             /\ UNCHANGED <<tvars, senderMu, trackMu, calls, halted>>
             /\ Quiet

\* ... and the mutex of the track read is locked
L140lock(p) ==
  /\ At(p, "L140lock")
  /\ trackMu[procs[p].lk] = Nil
  /\ trackMu' = [trackMu EXCEPT ![procs[p].lk] = p]
  /\ Goto(p, "L141")
  /\ UNCHANGED <<tvars, senderMu, calls, halted>>
  /\ Quiet

\* line 141: defer sender.track.mu.Unlock(); the mutex is that of the track
\* the field names now
L141(p) ==
  /\ At(p, "L141")
  /\ LET me == procs[p]
     IN IF track[me.s] = Nil THEN Crash
        ELSE /\ procs' = [procs EXCEPT ![p].pc = "L144", ![p].ul = track[me.s]]
             /\ UNCHANGED <<tvars, senderMu, trackMu, calls, halted>>
             /\ Quiet

\* lines 144-149: the codec check
L144(p) ==
  /\ At(p, "L144")
  /\ LET me == procs[p]
     IN IF track[me.s] = Nil THEN Crash
        ELSE /\ IF codecMimeType(track[me.s]) # codecMimeType(me.tr)
                THEN ReturnUnlocking(p)
                ELSE /\ Goto(p, "L151")
                     /\ UNCHANGED <<senderMu, trackMu, halted>>
             /\ UNCHANGED <<tvars, calls>>
             /\ Quiet

\* lines 151-158: the loop over sender.track.activeSenders builds the filtered
\* list and decrements the count
L151(p) ==
  /\ At(p, "L151")
  /\ LET me == procs[p]
         old == track[me.s]
     IN IF old = Nil \/ Len(activeSenders[old]) = 0 THEN Crash
        ELSE /\ procs' = [procs EXCEPT ![p].pc = "L159",
                                       ![p].filtered = filterSenders(activeSenders[old], me.s)]
             /\ totalSenderCount' = [totalSenderCount EXCEPT ![old] =
                                        countAfterFilter(activeSenders[old], me.s, @)]
             /\ UNCHANGED <<kind, direction, stopped, sender, receiver, receiverStopped,
                            track, transceiver, stopCalled, activeSenders, senderMu,
                            trackMu, calls, halted>>
             /\ Quiet

\* line 159: sender.track.activeSenders = filtered
L159(p) ==
  /\ At(p, "L159")
  /\ LET me == procs[p]
     IN IF track[me.s] = Nil THEN Crash
        ELSE /\ activeSenders' = [activeSenders EXCEPT ![track[me.s]] = me.filtered]
             /\ Goto(p, "L162")
             /\ UNCHANGED <<kind, direction, stopped, sender, receiver, receiverStopped,
                            track, transceiver, stopCalled, totalSenderCount, senderMu,
                            trackMu, calls, halted>>
             /\ Quiet

\* lines 162-165: bind the new track, and return
L162(p) ==
  /\ At(p, "L162")
  /\ LET me == procs[p]
     IN /\ track' = [track EXCEPT ![me.s] = me.tr]
        /\ activeSenders' = [activeSenders EXCEPT ![me.tr] = Append(@, me.s)]
        /\ totalSenderCount' = [totalSenderCount EXCEPT ![me.tr] = @ + 1]
  /\ ReturnUnlocking(p)
  /\ UNCHANGED <<kind, direction, stopped, sender, receiver, receiverStopped,
                 transceiver, stopCalled, calls>>
  /\ Quiet

NextConc ==
  \/ \E p \in Procs, t \in Shared, tr \in ConcTracks \cup {Nil} : CallReplaceTrack(p, t, tr)
  \/ \E p \in Procs, t \in Shared : CallStop(p, t)
  \/ \E p \in Procs : L88(p)
  \/ \E p \in Procs : L39(p)
  \/ \E p \in Procs : L43(p)
  \/ \E p \in Procs : L93(p)
  \/ \E p \in Procs, out \in StopOutcomes : SenderStopLock(p, out)
  \/ \E p \in Procs : SenderStopTrack(p)
  \/ \E p \in Procs : SenderStopBody(p)
  \/ \E p \in Procs, rout \in StopOutcomes : L69(p, rout)
  \/ \E p \in Procs : L130(p)
  \/ \E p \in Procs : L132(p)
  \/ \E p \in Procs : L134(p)
  \/ \E p \in Procs : L140(p)
  \/ \E p \in Procs : L140lock(p)
  \/ \E p \in Procs : L141(p)
  \/ \E p \in Procs : L144(p)
  \/ \E p \in Procs : L151(p)
  \/ \E p \in Procs : L159(p)
  \/ \E p \in Procs : L162(p)

SpecConc == InitConc /\ [][NextConc]_vars

\* no call is in progress
Quiescent == ~halted /\ \A p \in Procs : procs[p].pc = "idle"

\* C2: whenever no call is in progress, after any replaceTrack and Stop calls
\* of concurrent goroutines, each track's totalSenderCount is the length of its
\* activeSenders and is not negative.
C2_CountIsLength ==
  Quiescent =>
    \A tr \in Tracks :
       /\ totalSenderCount[tr] = Len(activeSenders[tr])
       /\ totalSenderCount[tr] >= 0

--------------------------------------------------------------------------
\* The echo relay: each remote track's OnTrack handler copies the packets it
\* reads to an outbound track.

\* the handlers of the remote tracks, in the order the tracks start; the third
\* one panics
EchoHandlers == 1..3

\* the two outbound tracks, outputTrack1 and outputTrack2
EchoOutputs == 1..2

\* the values rand.Uint32() gives the outbound tracks' SSRCs in the model
SsrcValues == {101, 102}

\* the SSRC of the remote track handler h reads from
InboundSSRC(h) == 200 + h

\* the outcomes of track.ReadRTP() and of outputTrack.WriteRTP(): a packet or
\* nil, io.ErrClosedPipe, or another error
ReadOutcomes == {"ok", "err"}
WriteOutcomes == {"ok", "closed", "err"}

InitEcho ==
  /\ NoTransceivers
  /\ NoProcs
  /\ NoMatch
  /\ panicked = FALSE
  /\ trackCount = 0
  /\ outputTrack = [h \in EchoHandlers |-> Nil]
  /\ outputSSRC \in [EchoOutputs -> SsrcValues]
  /\ echoRead = [h \in EchoHandlers |-> 0]
  /\ echoWritten = [o \in EchoOutputs |-> <<>>]
  /\ echoFailed = {}
  /\ echoPaced = {}
  /\ NoSim

EchoQuiet == UNCHANGED <<tvars, seqvars, matchvars, concvars, simvars>>

\* lines 90-99: a remote track starts; its handler takes outputTrack1, then
\* outputTrack2, then panics
EchoOnTrack(h) ==
  /\ ~panicked
  /\ h = trackCount + 1
  /\ IF trackCount >= 2
       THEN panicked' = TRUE /\ UNCHANGED <<trackCount, outputTrack>>
       ELSE /\ outputTrack' = [outputTrack EXCEPT ![h] = h]
            /\ trackCount' = trackCount + 1
            /\ UNCHANGED panicked
  /\ UNCHANGED <<outputSSRC, echoRead, echoWritten, echoFailed, echoPaced>>
  /\ EchoQuiet

\* lines 102-110: the pacer of handler h sends a picture-loss-indication
EchoPacer(h) ==
  /\ ~panicked
  /\ outputTrack[h] # Nil
  /\ echoPaced' = echoPaced \cup {h}
  /\ UNCHANGED <<panicked, trackCount, outputTrack, outputSSRC, echoRead, echoWritten,
                 echoFailed>>
  /\ EchoQuiet

\* a packet stamped with the SSRC of the outbound track it is written to
echoPacket_ownSSRC(h, n) == [src |-> h, n |-> n, ssrc |-> outputSSRC[outputTrack[h]]]

\* the packet handler h forwards: the n-th it has read, with the SSRC of line 122
echoPacket(h, n) == [src |-> h, n |-> n, ssrc |-> outputSSRC[1]]

\* lines 113-128: one turn of handler h's loop
EchoPump(h, rd, wr) ==
  /\ ~panicked
  /\ outputTrack[h] # Nil
  /\ echoRead[h] < MaxEchoPackets
  /\ IF rd = "err"
       THEN /\ panicked' = TRUE
            /\ echoFailed' = echoFailed \cup {h}
            /\ UNCHANGED <<echoRead, echoWritten>>
       ELSE /\ echoRead' = [echoRead EXCEPT ![h] = @ + 1]
            /\ echoWritten' =
                 IF wr = "ok"
                   THEN [echoWritten EXCEPT ![outputTrack[h]] =
                                               Append(@, echoPacket(h, echoRead[h] + 1))]
                   ELSE echoWritten
            /\ panicked' = (wr = "err")
            /\ UNCHANGED echoFailed
  /\ UNCHANGED <<trackCount, outputTrack, outputSSRC, echoPaced>>
  /\ EchoQuiet

NextEcho ==
  \/ \E h \in EchoHandlers : EchoOnTrack(h)
  \/ \E h \in EchoHandlers : EchoPacer(h)
  \/ \E h \in EchoHandlers, rd \in ReadOutcomes, wr \in WriteOutcomes : EchoPump(h, rd, wr)

SpecEcho == InitEcho /\ [][NextEcho]_vars

\* each outbound track has its packets in the order they were read
EchoInOrder ==
  \A o \in EchoOutputs :
    \A j, k \in DOMAIN echoWritten[o] :
      j < k => /\ echoWritten[o][j].src = echoWritten[o][k].src
               /\ echoWritten[o][j].n < echoWritten[o][k].n

\* C12 as stated: the packets of each inbound track are written to its outbound
\* track in the order read, and every packet written to an outbound track
\* carries the SSRC of the track it is written to, not its original SSRC.
C12_EchoCarriesOwnSSRC ==
  /\ EchoInOrder
  /\ \A o \in EchoOutputs :
       \A k \in DOMAIN echoWritten[o] :
         /\ echoWritten[o][k].ssrc = outputSSRC[o]
         /\ echoWritten[o][k].ssrc # InboundSSRC(echoWritten[o][k].src)

\* C12 amended: the packets of each inbound track are written to its outbound
\* track in the order read, and every packet written, to either outbound
\* track, carries the SSRC of the first outbound track, not its original SSRC.
C12_EchoCarriesFirstSSRC ==
  /\ EchoInOrder
  /\ \A o \in EchoOutputs :
       \A k \in DOMAIN echoWritten[o] :
         /\ echoWritten[o][k].ssrc = outputSSRC[1]
         /\ echoWritten[o][k].ssrc # InboundSSRC(echoWritten[o][k].src)

C12_Witness ==
  /\ outputSSRC[1] # outputSSRC[2]
  /\ Len(echoWritten[1]) = MaxEchoPackets
  /\ Len(echoWritten[2]) = MaxEchoPackets

--------------------------------------------------------------------------
\* The simulcast relay: each remote track's handler sends the packets of the
\* selected stream id to one channel; one consumer writes them to outputTrack.

\* uint32 values are pairs <<high 16 bits, low 16 bits>>
Word == 2^16

Add32(a, b) ==
  LET lo == a[2] + b[2]
  IN <<(a[1] + b[1] + (lo \div Word)) % Word, lo % Word>>

Sub32(a, b) ==
  LET borrow == IF a[2] < b[2] THEN 1 ELSE 0
  IN <<(a[1] - b[1] - borrow + Word) % Word, (a[2] - b[2] + Word) % Word>>

Zero32 == <<0, 0>>

Leq32(a, b) == a[1] < b[1] \/ (a[1] = b[1] /\ a[2] <= b[2])

\* a + b needs more than 32 bits
Carries32(a, b) == a[1] + b[1] + ((a[2] + b[2]) \div Word) >= Word

\* the timestamps the inbound packets carry
Timestamps == {Zero32, <<0, 1>>, <<Word - 1, Word - 1>>}

\* the remote tracks, and the stream id each one's packets carry
SimTracks == {1, 2}

StreamIDs == {"a", "b"}

streamID(i) == IF i = 1 THEN "a" ELSE "b"

\* what GetExtension gives for a packet of track i: its stream id, or nothing
Extensions(i) == {streamID(i), ""}

\* the rid of a data channel message; v.RID[0] of an empty one panics
Messages == StreamIDs \cup {""}

\* the SSRCs of outputTrack and of the remote track i
outputTrackSSRC == 100

trackSSRC(i) == 200 + i

NoPacket ==
  [src |-> Nil, n |-> 0, orig |-> Zero32, prev |-> Zero32, ts |-> Zero32, ssrc |-> 0,
   seq |-> 0, ext |-> FALSE, rid |-> "", curr |-> ""]

InitSim ==
  /\ NoTransceivers
  /\ NoProcs
  /\ NoMatch
  /\ NoEcho
  /\ panicked = FALSE
  /\ currRTPStreamID = "a"
  /\ packets = <<>>
  /\ pumpPc = [i \in SimTracks |-> "off"]
  /\ lastTimestamp = [i \in SimTracks |-> Zero32]
  /\ isCurrTrack = [i \in SimTracks |-> FALSE]
  /\ rtp = [i \in SimTracks |-> NoPacket]
  /\ pumpPLI = [i \in SimTracks |-> 0]
  /\ currTimestamp = Zero32
  /\ seqNumber = 0
  /\ enqueued = <<>>
  /\ consumed = <<>>
  /\ switched = {}
  /\ simFailed = {}

SimQuiet == UNCHANGED <<tvars, seqvars, matchvars, concvars, echovars>>

\* lines 108-138: the remote track i starts; its handler begins to read
SimOnTrack(i) ==
  /\ ~panicked
  /\ pumpPc[i] = "off"
  /\ pumpPc' = [pumpPc EXCEPT ![i] = "read"]
  /\ UNCHANGED <<panicked, currRTPStreamID, packets, lastTimestamp, isCurrTrack, rtp,
                 pumpPLI, currTimestamp, seqNumber, enqueued, consumed,
                 switched, simFailed>>
  /\ SimQuiet

\* lines 112-131: the pacer of track i sends the bitrate estimate and a
\* picture-loss-indication; nothing the relay keeps changes
SimPacer(i) ==
  /\ ~panicked
  /\ pumpPc[i] # "off"
  /\ UNCHANGED <<panicked, simvars>>
  /\ SimQuiet

\* lines 147-152: the timestamp the packet gets, from its own and lastTimestamp
deltaTimestamp(timestamp, lastTs) ==
  IF lastTs = Zero32 THEN Zero32 ELSE Sub32(timestamp, lastTs)

\* a check that lets every stream id through
isCurrentStream_any(rid, curr) == TRUE

\* line 159: the packet goes on to the channel
isCurrentStream(rid, curr) == rid = curr

\* lines 141-170: the handler of track i reads a packet with the timestamp ts
\* and the stream id extension rid, up to the send to the channel
PumpRead(i, rd, ts, rid) ==
  /\ ~panicked
  /\ pumpPc[i] = "read"
  /\ rtp[1].n + rtp[2].n < MaxSimReads
  /\ IF rd = "err"
       THEN /\ panicked' = TRUE
            /\ simFailed' = simFailed \cup {i}
            /\ UNCHANGED <<pumpPc, lastTimestamp, isCurrTrack, rtp, pumpPLI, switched>>
       ELSE /\ rtp' = [rtp EXCEPT ![i] =
                         [src |-> i, n |-> rtp[i].n + 1, orig |-> ts,
                          prev |-> lastTimestamp[i],
                          ts |-> deltaTimestamp(ts, lastTimestamp[i]),
                          ssrc |-> trackSSRC(i), seq |-> 0, ext |-> rid # "",
                          rid |-> rid, curr |-> currRTPStreamID]]
            /\ lastTimestamp' = [lastTimestamp EXCEPT ![i] = ts]
            /\ UNCHANGED simFailed
            /\ IF rid = ""
                 THEN /\ panicked' = TRUE
                      /\ UNCHANGED <<pumpPc, isCurrTrack, pumpPLI, switched>>
                 ELSE IF ~isCurrentStream(rid, currRTPStreamID)
                 THEN /\ isCurrTrack' = [isCurrTrack EXCEPT ![i] = FALSE]
                      /\ UNCHANGED <<panicked, pumpPc, pumpPLI, switched>>
                 ELSE /\ isCurrTrack' = [isCurrTrack EXCEPT ![i] = TRUE]
                      /\ pumpPLI' = [pumpPLI EXCEPT ![i] =
                                        IF isCurrTrack[i] THEN @ ELSE @ + 1]
                      /\ pumpPc' = [pumpPc EXCEPT ![i] = "send"]
                      /\ switched' = switched \ {i}
                      /\ UNCHANGED panicked
  /\ UNCHANGED <<currRTPStreamID, packets, currTimestamp, seqNumber, enqueued,
                 consumed>>
  /\ SimQuiet

\* a send that gives the packet up when the channel is full
PumpSend_dropWhenFull(i) ==
  /\ ~panicked
  /\ pumpPc[i] = "send"
  /\ IF Len(packets) < QueueCapacity
       THEN /\ packets' = Append(packets, rtp[i])
            /\ enqueued' = Append(enqueued, [src |-> i, n |-> rtp[i].n, rid |-> rtp[i].rid,
                                             curr |-> rtp[i].curr])
       ELSE UNCHANGED <<packets, enqueued>>
  /\ pumpPc' = [pumpPc EXCEPT ![i] = "read"]
  /\ UNCHANGED <<panicked, currRTPStreamID, lastTimestamp, isCurrTrack, rtp, pumpPLI,
                 currTimestamp, seqNumber, consumed, switched, simFailed>>
  /\ SimQuiet

\* line 172: packets <- rtp, which waits while the channel is full
PumpSend(i) ==
  /\ ~panicked
  /\ pumpPc[i] = "send"
  /\ Len(packets) < QueueCapacity
  /\ packets' = Append(packets, rtp[i])
  /\ enqueued' = Append(enqueued, [src |-> i, n |-> rtp[i].n, rid |-> rtp[i].rid,
                                   curr |-> rtp[i].curr])
  /\ pumpPc' = [pumpPc EXCEPT ![i] = "read"]
  /\ UNCHANGED <<panicked, currRTPStreamID, lastTimestamp, isCurrTrack, rtp, pumpPLI,
                 currTimestamp, seqNumber, consumed, switched, simFailed>>
  /\ SimQuiet

\* a consumer that writes the packet's delta as its timestamp
rewritePacket_deltaKept(packet, curr, i) ==
  [packet EXCEPT !.ssrc = outputTrackSSRC, !.seq = i, !.ext = FALSE]

\* lines 203-210: the packet as the consumer writes it
rewritePacket(packet, curr, i) ==
  [packet EXCEPT !.ts = Add32(curr, packet.ts), !.ssrc = outputTrackSSRC, !.seq = i,
                 !.ext = FALSE]

\* lines 200-215: one turn of the consumer's loop; wr is what WriteRTP returns
Consume(wr) ==
  /\ ~panicked
  /\ packets # <<>>
  /\ LET packet == Head(packets)
         out == rewritePacket(packet, currTimestamp, seqNumber)
     IN /\ packets' = Tail(packets)
        /\ currTimestamp' = Add32(currTimestamp, packet.ts)
        /\ consumed' = Append(consumed, [packet |-> out, delta |-> packet.ts,
                                         rid |-> packet.rid, wr |-> wr,
                                         emitted |-> wr = "ok"])
        /\ panicked' = (wr = "err")
        /\ seqNumber' = IF wr = "err" THEN seqNumber ELSE (seqNumber + 1) % Word
  /\ UNCHANGED <<currRTPStreamID, pumpPc, lastTimestamp, isCurrTrack, rtp, pumpPLI,
                 enqueued, switched, simFailed>>
  /\ SimQuiet

\* lines 178-187: a data channel message selects the stream id m
SelectStream(m) ==
  /\ ~panicked
  /\ IF m = ""
       THEN panicked' = TRUE /\ UNCHANGED <<currRTPStreamID, switched>>
       ELSE /\ currRTPStreamID' = m
            /\ switched' = IF m = currRTPStreamID THEN switched
                           ELSE switched \cup {i \in SimTracks : streamID(i) = m}
            /\ UNCHANGED panicked
  /\ UNCHANGED <<packets, pumpPc, lastTimestamp, isCurrTrack, rtp, pumpPLI,
                 currTimestamp, seqNumber, enqueued, consumed, simFailed>>
  /\ SimQuiet

NextSim ==
  \/ \E i \in SimTracks : SimOnTrack(i)
  \/ \E i \in SimTracks : SimPacer(i)
  \/ \E i \in SimTracks, rd \in ReadOutcomes, ts \in Timestamps :
        \E rid \in Extensions(i) : PumpRead(i, rd, ts, rid)
  \/ \E i \in SimTracks : PumpSend(i)
  \/ \E wr \in WriteOutcomes : Consume(wr)
  \/ \E m \in Messages : SelectStream(m)

SpecSim == InitSim /\ [][NextSim]_vars

RECURSIVE SumOfDeltas(_)
\* the deltas of the first k packets the consumer took, added up as uint32
SumOfDeltas(k) ==
  IF k = 0 THEN Zero32 ELSE Add32(SumOfDeltas(k - 1), consumed[k].delta)

\* the selected stream id was the same for all the packets consumed
OneStreamConsumed ==
  \A j, k \in DOMAIN consumed : consumed[j].rid = consumed[k].rid

\* C13 as stated: with one selected stream id, the timestamp the k-th dequeued
\* packet is written with is the sum of the deltas of the first k dequeued
\* packets, and the timestamps written never go down.
C13_TimestampsNeverDecrease ==
  OneStreamConsumed =>
    \A k \in DOMAIN consumed :
      /\ consumed[k].packet.ts = SumOfDeltas(k)
      /\ k > 1 => Leq32(consumed[k - 1].packet.ts, consumed[k].packet.ts)

\* C13 amended: the timestamp the k-th dequeued packet is written with is the
\* sum modulo 2^32 of the deltas of the first k dequeued packets; it is no less
\* than the one before wherever adding the delta does not pass 2^32.
C13_TimestampsAreSumsModulo ==
  \A k \in DOMAIN consumed :
    /\ consumed[k].packet.ts = SumOfDeltas(k)
    /\ (k > 1 /\ ~Carries32(consumed[k - 1].packet.ts, consumed[k].delta))
         => Leq32(consumed[k - 1].packet.ts, consumed[k].packet.ts)

C13_Witness ==
  /\ OneStreamConsumed
  /\ Len(consumed) = 3
  /\ consumed[2].delta # Zero32
  /\ Carries32(consumed[2].packet.ts, consumed[3].delta)
  /\ ~Leq32(consumed[2].packet.ts, consumed[3].packet.ts)

\* the packets outputTrack has accepted, in order
Emitted == SelectSeq(consumed, LAMBDA c : c.emitted)

\* the consumer has taken the packets in the order they were sent to the channel
ConsumedInQueueOrder ==
  /\ Len(consumed) <= Len(enqueued)
  /\ \A k \in DOMAIN consumed :
       /\ consumed[k].packet.src = enqueued[k].src
       /\ consumed[k].packet.n = enqueued[k].n

\* C14: the consumer writes the packets in the order they entered the channel,
\* and the sequence numbers of the packets outputTrack has accepted go up by
\* one from each to the next, with writes swallowed in between or not.
C14_FifoAndContiguousSequence ==
  /\ ConsumedInQueueOrder
  /\ \A k \in DOMAIN Emitted :
       k > 1 => Emitted[k].packet.seq = (Emitted[k - 1].packet.seq + 1) % Word

\* C15: when the handler of a track lets a packet through and the track's
\* stream id has been selected anew since the track last forwarded, the handler
\* sends one picture-loss-indication in that step, before the packet goes to
\* the channel; for a further packet of a track whose id was not selected anew
\* it sends none.
C15_OnePliPerSwitch ==
  [][\A i \in SimTracks :
       (pumpPc[i] = "read" /\ pumpPc'[i] = "send")
       => /\ i \in switched => pumpPLI'[i] = pumpPLI[i] + 1
          /\ (i \notin switched /\ rtp[i].n > 0) => pumpPLI'[i] = pumpPLI[i]]_vars

\* C17: the first packet read on a track gets the timestamp 0, and every later
\* one its own timestamp less that of the packet read before it on the track,
\* modulo 2^32.
C17_DeltaFromPreviousPacket ==
  \A i \in SimTracks :
    /\ rtp[i].n = 1 => rtp[i].ts = Zero32
    /\ rtp[i].n > 1 => rtp[i].ts = Sub32(rtp[i].orig, rtp[i].prev)

\* the goroutine holding the mutex that goroutine p, inside the locked part
\* of replaceTrack, is waiting for (Nil: p is not waiting)
WaitsFor(p) ==
  CASE procs[p].pc = "L130" -> senderMu[procs[p].s]
    [] procs[p].pc = "L132" -> trackMu[procs[p].tr]
    [] procs[p].pc = "L140lock" -> trackMu[procs[p].lk]
    [] OTHER -> Nil

\* C16: concurrent replaceTrack calls with non-null tracks on sending
\* transceivers never block one another for good: no two of them each wait for
\* a mutex the other holds.
C16_NoLockCycle ==
  \A p, q \in Procs :
    ~(p # q /\ WaitsFor(p) = q /\ WaitsFor(q) = p)

\* every packet sent to the channel had the selected stream id when checked
EnqueuedWereSelected ==
  \A k \in DOMAIN enqueued : enqueued[k].rid = enqueued[k].curr

\* every packet written carries outputTrack's SSRC and no header extension
WrittenAreRewritten ==
  \A k \in DOMAIN consumed :
    /\ consumed[k].packet.ssrc = outputTrackSSRC
    /\ ~consumed[k].packet.ext

\* C18: a packet goes to the channel only if its stream id was the selected
\* one when checked; a packet with another id is dropped in the step that
\* reads it (not sent, not written) and marks its track not current; every
\* packet written carries outputTrack's SSRC and no header extension.
C18_OnlySelectedStreamForwarded ==
  /\ [](EnqueuedWereSelected /\ ConsumedInQueueOrder /\ WrittenAreRewritten)
  /\ [][\A i \in SimTracks :
          (/\ rtp'[i].n = rtp[i].n + 1
           /\ rtp'[i].rid # ""
           /\ rtp'[i].rid # currRTPStreamID)
          => /\ ~isCurrTrack'[i]
             /\ pumpPc'[i] = "read"
             /\ packets' = packets
             /\ enqueued' = enqueued
             /\ consumed' = consumed]_vars

C18_Witness ==
  \E i, j \in SimTracks :
    /\ rtp[i].n > 0 /\ rtp[i].rid # "" /\ rtp[i].rid # rtp[i].curr
    /\ ~isCurrTrack[i]
    /\ \E k \in DOMAIN consumed : consumed[k].packet.src = j /\ consumed[k].emitted

\* the simulcast relay with a consumer that keeps taking packets and sends
\* that go through once the channel has room
\* that waiting does not depend on the timestamps: the packets all carry one
NextSimFair ==
  \/ \E i \in SimTracks : SimOnTrack(i)
  \/ \E i \in SimTracks : SimPacer(i)
  \/ \E i \in SimTracks, rd \in ReadOutcomes :
        \E rid \in Extensions(i) : PumpRead(i, rd, <<0, 1>>, rid)
  \/ \E i \in SimTracks : PumpSend(i)
  \/ \E wr \in WriteOutcomes : Consume(wr)
  \/ \E m \in Messages : SelectStream(m)

SpecSimFair ==
  /\ InitSim
  /\ [][NextSimFair]_vars
  /\ WF_vars(\E wr \in WriteOutcomes : Consume(wr))
  /\ \A i \in SimTracks : SF_vars(PumpSend(i))

\* the packets sent to the channel are the ones consumed followed by the ones
\* in the channel, each once
EachPacketOnce ==
  /\ Len(enqueued) = Len(consumed) + Len(packets)
  /\ ConsumedInQueueOrder
  /\ \A k \in DOMAIN packets :
       /\ packets[k].src = enqueued[Len(consumed) + k].src
       /\ packets[k].n = enqueued[Len(consumed) + k].n
  /\ \A j, k \in DOMAIN enqueued :
       (enqueued[j].src = enqueued[k].src /\ enqueued[j].n = enqueued[k].n) => j = k

\* the consumer has taken the n-th packet of track i
Dequeued(i, n) ==
  \E k \in DOMAIN consumed : consumed[k].packet.src = i /\ consumed[k].packet.n = n

\* C19: the channel never holds more than its capacity; no packet sent to it
\* is lost or taken twice; and a packet that has passed the check, its handler
\* waiting at the send, is taken by the consumer in the end, as long as the
\* process lives.
C19_BackpressureLosesNothing ==
  /\ [](Len(packets) <= QueueCapacity /\ EachPacketOnce)
  /\ \A i \in SimTracks : \A n \in 1..MaxSimReads :
       (pumpPc[i] = "send" /\ rtp[i].n = n) ~> (panicked \/ Dequeued(i, n))

C19_Witness ==
  /\ Len(packets) = QueueCapacity
  /\ \E i \in SimTracks : pumpPc[i] = "send"
  /\ ~panicked

\* the consumer's last write returned wr
LastWrite(wr) ==
  /\ Len(consumed') = Len(consumed) + 1
  /\ consumed'[Len(consumed')].wr = wr

\* C20: a read failure on one track stops that track's handler only, the
\* process with its other handlers, pacers and consumer going on; a write that
\* fails with io.ErrClosedPipe is swallowed and the consumer goes on; any other
\* write failure ends the consumer.
C20_FailureIsolated ==
  [][/\ simFailed' # simFailed => ~panicked'
     /\ LastWrite("closed") => ~panicked'
     /\ LastWrite("err") => panicked']_vars

====
